---------------------------- MODULE Spec2Model ----------------------------
(***************************************************************************)
(* A model of the script-to-audio core: ScriptParser                       *)
(* (src/script_parser_module.py), AudioProcessor                           *)
(* (src/audio_processor_module.py), KokoroTTSEngine.synthesize             *)
(* (src/tts_engine_module.py) and the handler of /synthesize/text          *)
(* (src/kokoro_complete_app.py).                                           *)
(*                                                                         *)
(* A Python str is a sequence of one-character strings, so that strip,     *)
(* upper, split and the regular expressions are computed character by      *)
(* character.  A waveform is a sequence of samples; a sample is an exact   *)
(* rational linear combination of the input samples (numerators over one   *)
(* denominator), so that the weights of a crossfade and the inputs a       *)
(* sample depends on can be read off the state.  Floating-point rounding   *)
(* of the weights is not modelled.                                         *)
(***************************************************************************)
EXTENDS Integers, Sequences, FiniteSets, TLC

VARIABLES
    \* ScriptParser.parse_script
    script_text, voice_mappings, lines, line_no, current_speaker,
    current_text, current_src, segments, ppc,
    \* ScriptParser._detect_speaker called on its own
    d_line, d_match, dpc,
    \* ScriptParser._get_voice_for_speaker called on its own
    v_speaker, v_map, v_result, vpc,
    \* AudioProcessor.concatenate_with_crossfade
    sample_rate, crossfade_duration_ms, audio_segments, crossfade_samples,
    result, seg_no, step_kind, apc,
    \* ScriptParser.detect_characters
    c_text, characters, cpc,
    \* ScriptParser.suggest_voice_mappings
    s_text, s_characters, s_no, suggestions, male_voice_idx, female_voice_idx,
    spc,
    \* KokoroTTSEngine.synthesize
    e_ready, e_text, e_voice, pipeline_voice, epc,
    \* synthesize_text, the handler of /synthesize/text
    request_text, h_exception, response, engine_calls, concat_calls, hpc,
    \* parse_script called a second time
    round, first_segments

pvars == <<script_text, voice_mappings, lines, line_no, current_speaker,
           current_text, current_src, segments, ppc>>
dvars == <<d_line, d_match, dpc>>
vvars == <<v_speaker, v_map, v_result, vpc>>
avars == <<sample_rate, crossfade_duration_ms, audio_segments,
           crossfade_samples, result, seg_no, step_kind, apc>>
cvars == <<c_text, characters, cpc>>
svars == <<s_text, s_characters, s_no, suggestions, male_voice_idx,
           female_voice_idx, spc>>
evars == <<e_ready, e_text, e_voice, pipeline_voice, epc>>
hvars == <<request_text, h_exception, response, engine_calls, concat_calls,
           hpc>>
bvars == <<round, first_segments>>
vars == <<pvars, dvars, vvars, avars, cvars, svars, evars, hvars, bvars>>

-----------------------------------------------------------------------------
(* Bounds of the model *)

\* Lines of a script.
MaxLines == 3
\* Waveforms handed to one concatenation.
MaxWaves == 3
\* Samples of one waveform.
MaxLen == 6
\* crossfade_duration_ms.
MaxMs == 3
\* Characters of an enumerated line for _detect_speaker.
MaxChars == 4
\* Cue lines of a script handed to suggest_voice_mappings.
MaxSpeakers == 6

-----------------------------------------------------------------------------
(* Python str operations *)

UpperLetters == <<"A","B","C","D","E","F","G","H","I","J","K","L","M","N","O","P","Q","R","S","T","U","V","W","X","Y","Z">>
LowerLetters == <<"a","b","c","d","e","f","g","h","i","j","k","l","m","n","o","p","q","r","s","t","u","v","w","x","y","z">>

UpperSet == {UpperLetters[k] : k \in 1..Len(UpperLetters)}
LowerSet == {LowerLetters[k] : k \in 1..Len(LowerLetters)}

IsUpperLetter(c) == c \in UpperSet
IsLowerLetter(c) == c \in LowerSet

ToUpper == [c \in LowerSet |-> UpperLetters[CHOOSE k \in 1..Len(LowerLetters) : LowerLetters[k] = c]]
ToLower == [c \in UpperSet |-> LowerLetters[CHOOSE k \in 1..Len(UpperLetters) : UpperLetters[k] = c]]

\* str.upper
upper(s) == [k \in 1..Len(s) |-> IF IsLowerLetter(s[k]) THEN ToUpper[s[k]] ELSE s[k]]

\* str.lower
lower(s) == [k \in 1..Len(s) |-> IF IsUpperLetter(s[k]) THEN ToLower[s[k]] ELSE s[k]]

\* \s of re, and the characters str.strip and str.split take for whitespace
IsSpace(c) == c \in {" ", "\t", "\r", "\n"}

\* str.strip
strip(s) ==
    LET keep == {k \in 1..Len(s) : ~IsSpace(s[k])}
    IN  IF keep = {} THEN <<>>
        ELSE LET first == CHOOSE k \in keep : \A m \in keep : k <= m
                 last == CHOOSE k \in keep : \A m \in keep : k >= m
             IN  SubSeq(s, first, last)

\* str.startswith
startswith(s, prefix) ==
    /\ Len(prefix) <= Len(s)
    /\ SubSeq(s, 1, Len(prefix)) = prefix

\* sub in s
contains(s, sub) ==
    \E k \in 0..(Len(s) - Len(sub)) : SubSeq(s, k + 1, k + Len(sub)) = sub

\* s.split()[0]: the first whitespace-delimited token (s holds one)
first_word(s) ==
    LET t == strip(s)
        stops == {k \in 1..Len(t) : IsSpace(t[k])}
    IN  IF stops = {} THEN t
        ELSE SubSeq(t, 1, (CHOOSE k \in stops : \A m \in stops : k <= m) - 1)

\* s.split('\n')
RECURSIVE split_lines(_)
split_lines(s) ==
    LET breaks == {k \in 1..Len(s) : s[k] = "\n"}
    IN  IF breaks = {} THEN <<s>>
        ELSE LET b == CHOOSE k \in breaks : \A m \in breaks : k <= m
             IN  <<SubSeq(s, 1, b - 1)>> \o split_lines(SubSeq(s, b + 1, Len(s)))

\* sep.join(parts)
RECURSIVE join(_, _)
join(sep, parts) ==
    IF parts = <<>> THEN <<>>
    ELSE IF Len(parts) = 1 THEN parts[1]
    ELSE parts[1] \o sep \o join(sep, Tail(parts))

-----------------------------------------------------------------------------
(* ScriptParser.__init__: the built-in tables *)

male_names == {
    <<"j","o","h","n">>, <<"m","i","k","e">>, <<"d","a","v","i","d">>, <<"j","a","m","e","s">>, <<"r","o","b","e","r","t">>, <<"m","i","c","h","a","e","l">>, <<"w","i","l","l","i","a","m">>,
    <<"j","o","s","e","p","h">>, <<"t","h","o","m","a","s">>, <<"c","h","a","r","l","e","s">>, <<"d","a","n","i","e","l">>, <<"p","a","u","l">>, <<"m","a","r","k">>, <<"g","e","o","r","g","e">>,
    <<"p","e","t","e","r">>, <<"a","l","e","x">>, <<"a","d","a","m">>, <<"s","t","e","v","e">>, <<"j","a","c","k">>, <<"t","o","m">>, <<"b","o","b">>, <<"h","e","n","r","y">>,
    <<"k","n","o","x">>, <<"b","e","r","n","a","r","d">>, <<"m","c","l","a","i","n">>, <<"s","i","m","s">> }

female_names == {
    <<"s","a","r","a","h">>, <<"m","a","r","y">>, <<"j","e","n","n","i","f","e","r">>, <<"l","i","n","d","a">>, <<"p","a","t","r","i","c","i","a">>, <<"b","a","r","b","a","r","a">>,
    <<"e","l","i","z","a","b","e","t","h">>, <<"s","u","s","a","n">>, <<"j","e","s","s","i","c","a">>, <<"k","a","r","e","n">>, <<"n","a","n","c","y">>, <<"l","i","s","a">>,
    <<"b","e","t","t","y">>, <<"m","a","r","g","a","r","e","t">>, <<"s","a","n","d","r","a">>, <<"a","s","h","l","e","y">>, <<"e","m","i","l","y">>, <<"d","o","n","n","a">>,
    <<"b","e","l","l","a">>, <<"e","m","m","a">>, <<"s","o","p","h","i","a">>, <<"i","s","a","b","e","l","l","a">>, <<"s","h","i","r","l","e","y">> }

scene_keywords == {
    <<"I","N","T">>, <<"E","X","T">>, <<"F","A","D","E"," ","I","N">>, <<"F","A","D","E"," ","O","U","T">>, <<"C","U","T"," ","T","O">>, <<"D","I","S","S","O","L","V","E"," ","T","O">>,
    <<"C","O","N","T","I","N","U","E","D">>, <<"S","C","E","N","E">>, <<"L","O","C","A","T","I","O","N">>, <<"N","I","G","H","T">>, <<"D","A","Y">>, <<"M","O","R","N","I","N","G">>,
    <<"E","V","E","N","I","N","G">>, <<"L","A","T","E","R">>, <<"M","E","A","N","W","H","I","L","E">>, <<"F","L","A","S","H","B","A","C","K">>, <<"M","O","N","T","A","G","E">> }

default_voices ==
    [NARRATOR |-> "af_heart", MALE |-> "am_adam", FEMALE |-> "af_bella",
     DEFAULT |-> "af_heart"]

available_voices ==
    [male |-> <<"am_adam", "am_michael">>,
     female |-> <<"af_bella", "af_sarah", "af_heart", "af_sky", "af_nicole">>,
     neutral |-> <<"af_heart">>]

-----------------------------------------------------------------------------
(* ScriptParser._detect_speaker *)

\* None, and a match {'speaker': ..., 'dialogue': ...}
NoMatch == [matched |-> FALSE, speaker |-> <<>>, dialogue |-> <<>>]
SpeakerMatch(speaker, dialogue) ==
    [matched |-> TRUE, speaker |-> speaker, dialogue |-> dialogue]

\* A character of the class [A-Z\s\'\-\.]
IsNameChar(c) == IsUpperLetter(c) \/ IsSpace(c) \/ c \in {"'", "-", "."}

\* The index after the run of class characters that starts at index from
\* (Len(s) + 1 when the run reaches the end of s).
RunEnd(s, from) ==
    LET stops == {k \in from..Len(s) : ~IsNameChar(s[k])}
    IN  IF stops = {} THEN Len(s) + 1
        ELSE CHOOSE k \in stops : \A m \in stops : k <= m

\* [A-Z][A-Z\s\'\-\.]+? starting at index at, followed at once by a character
\* outside the class: the index of that character, 0 when there is no match.
\* The closing delimiters of the patterns (":", "]", ")", "*") are outside the
\* class, so the lazy run can only end at the first character outside it.
NameRun(s, at) ==
    IF at <= Len(s) /\ IsUpperLetter(s[at])
    THEN LET e == RunEnd(s, at + 1)
         IN  IF e >= at + 2 /\ e <= Len(s) THEN e ELSE 0
    ELSE 0

\* A pattern 1 whose run after the first letter needs two characters ({2,}).
Pattern1LongName(line) ==
    LET e == NameRun(line, 1)
    IN  IF e >= 4 /\ line[e] = ":" /\ e < Len(line) THEN e ELSE 0

\* Pattern 1: ^([A-Z][A-Z\s\'\-\.]+?):\s*(.+)$
\* the index of the colon, 0 when the pattern does not match
Pattern1(line) ==
    LET e == NameRun(line, 1)
    IN  IF e > 0 /\ line[e] = ":" /\ e < Len(line) THEN e ELSE 0

\* Pattern 2: ^[\[\(]([A-Z][A-Z\s\'\-\.]+?)[\]\)]\s*(.+)$
\* the index of the closing bracket, 0 when the pattern does not match
Pattern2(line) ==
    IF Len(line) >= 1 /\ line[1] \in {"[", "("}
    THEN LET e == NameRun(line, 2)
         IN  IF e > 0 /\ line[e] \in {"]", ")"} /\ e < Len(line) THEN e ELSE 0
    ELSE 0

\* Pattern 3: ^([A-Z][A-Z\s\'\-\.]{2,})$
Pattern3(line) ==
    /\ Len(line) >= 3
    /\ IsUpperLetter(line[1])
    /\ RunEnd(line, 2) = Len(line) + 1

\* Pattern 4: ^\*\*([A-Z][A-Z\s\'\-\.]+?)\*\*\s*(.+)$
\* the index of the first closing asterisk, 0 when the pattern does not match
Pattern4(line) ==
    IF Len(line) >= 2 /\ line[1] = "*" /\ line[2] = "*"
    THEN LET e == NameRun(line, 3)
         IN  IF e > 0 /\ e + 1 < Len(line) /\ line[e] = "*" /\ line[e + 1] = "*"
             THEN e ELSE 0
    ELSE 0

\* speaker.upper() not in self.scene_keywords
NotSceneKeyword(speaker) == upper(speaker) \notin scene_keywords

_detect_speaker(line) ==
    LET p1 == Pattern1(line)
        p2 == Pattern2(line)
        p4 == Pattern4(line)
    IN  IF p1 > 0 /\ NotSceneKeyword(strip(SubSeq(line, 1, p1 - 1)))
        THEN SpeakerMatch(strip(SubSeq(line, 1, p1 - 1)),
                          strip(SubSeq(line, p1 + 1, Len(line))))
        ELSE IF p2 > 0
        THEN SpeakerMatch(strip(SubSeq(line, 2, p2 - 1)),
                          strip(SubSeq(line, p2 + 1, Len(line))))
        ELSE IF Pattern3(line) /\ NotSceneKeyword(strip(line))
        THEN SpeakerMatch(strip(line), <<>>)
        ELSE IF p4 > 0
        THEN SpeakerMatch(strip(SubSeq(line, 3, p4 - 1)),
                          strip(SubSeq(line, p4 + 2, Len(line))))
        ELSE NoMatch

-----------------------------------------------------------------------------
(* ScriptParser._get_voice_for_speaker *)

\* voice_mappings is a dict: a sequence of <<key, voice>> pairs with distinct
\* keys, in insertion order (the order of .items()).
MapKeys(m) == {m[k][1] : k \in 1..Len(m)}
MapGet(m, key) == m[CHOOSE k \in 1..Len(m) : m[k][1] = key][2]

\* What the function returns: the voice, and the table entry it was read from.
Voice(voice, source) == [voice |-> voice, source |-> source]

\* A narrator test on the whole name instead of its first word.
AutoDetectVoiceWholeName(speaker) ==
    LET speaker_upper == upper(speaker)
        speaker_lower == first_word(lower(speaker))
    IN  IF strip(speaker) = <<>>
        THEN Voice("IndexError", "IndexError")
        ELSE IF speaker_lower \in male_names
        THEN Voice(available_voices.male[1], "available_voices.male")
        ELSE IF speaker_lower \in female_names
        THEN Voice(available_voices.female[1], "available_voices.female")
        ELSE IF contains(lower(speaker), <<"n","a","r","r">>) \/ speaker_upper = <<"N","A","R","R","A","T","O","R">>
        THEN Voice(default_voices.NARRATOR, "default_voices.NARRATOR")
        ELSE Voice(default_voices.DEFAULT, "default_voices.DEFAULT")

\* Auto-detect based on name: speaker.lower().split()[0] against the name
\* sets, then the narrator keywords, then the default voice.
AutoDetectVoice(speaker) ==
    LET speaker_upper == upper(speaker)
        speaker_lower == first_word(lower(speaker))
    IN  IF strip(speaker) = <<>>
        THEN Voice("IndexError", "IndexError")
        ELSE IF speaker_lower \in male_names
        THEN Voice(available_voices.male[1], "available_voices.male")
        ELSE IF speaker_lower \in female_names
        THEN Voice(available_voices.female[1], "available_voices.female")
        ELSE IF contains(speaker_lower, <<"n","a","r","r">>) \/ speaker_upper = <<"N","A","R","R","A","T","O","R">>
        THEN Voice(default_voices.NARRATOR, "default_voices.NARRATOR")
        ELSE Voice(default_voices.DEFAULT, "default_voices.DEFAULT")

\* A lookup that finds only the key spelled as speaker.upper().
_get_voice_exact_key_only(speaker, mappings) ==
    IF upper(speaker) \in MapKeys(mappings)
    THEN Voice(MapGet(mappings, upper(speaker)), "voice_mappings")
    ELSE AutoDetectVoice(speaker)

_get_voice_for_speaker(speaker, mappings) ==
    LET speaker_upper == upper(speaker)
        same == {k \in 1..Len(mappings) : upper(mappings[k][1]) = speaker_upper}
    IN  IF speaker_upper \in MapKeys(mappings)
        THEN Voice(MapGet(mappings, speaker_upper), "voice_mappings")
        ELSE IF same # {}
        THEN Voice(mappings[CHOOSE k \in same : \A m \in same : k <= m][2],
                   "voice_mappings")
        ELSE AutoDetectVoice(speaker)

-----------------------------------------------------------------------------
(* ScriptParser._is_scene_direction *)

_is_scene_direction(line) ==
    \/ LET line_upper == upper(line)
       IN  \E keyword \in scene_keywords : startswith(line_upper, keyword)
    \* ^\(.+\)$
    \/ Len(line) >= 3 /\ line[1] = "(" /\ line[Len(line)] = ")"

-----------------------------------------------------------------------------
(* ScriptParser.parse_script, one action per path through the loop body *)

\* current_speaker = None.  The code tests only the truth of current_speaker,
\* and no pattern yields an empty speaker.
None == <<>>

\* What the scripts are made of.
LineVocab == {
    <<"J","O","H","N",":"," ","h","i">>, <<"S","A","R","A","H",":"," ","y","o">>, <<"J","O","H","N">>, <<"I","N","T","."," ","K","I","T","C","H","E","N"," ","-"," ","N","I","G","H","T">>, <<"h","e","l","l","o">>,
    <<>>, <<" ">>, <<"(","s","i","g","h","s",")">>, <<"[","B","O","B","]"," ","o","k">>, <<" ","J","O","H","N",":"," ","h","i">> }

ScriptTexts ==
    {join(<<"\n">>, ls) : ls \in UNION {[1..n -> LineVocab] : n \in 1..MaxLines}}

ParseVoiceMaps == { << <<<<"j","o","h","n">>, "x">> >> }

\* A flush that forgets to test the buffer.
ShouldFlushSpeakerOnly(speaker, text) == speaker # None

\* if current_speaker and current_text
ShouldFlush(speaker, text) == speaker # None /\ text # <<>>

\* A flush that puts the new segment in front.
PrependSegment(segs, speaker, text, src, mappings) ==
    <<[voice |-> _get_voice_for_speaker(speaker, mappings).voice,
       text |-> join(<<" ">>, text),
       speaker |-> speaker,
       src |-> src]>> \o segs

\* segments.append((voice, text)); speaker and src (the numbers of the lines
\* the text was taken from) record where the segment came from.
AppendSegment(segs, speaker, text, src, mappings) ==
    Append(segs, [voice |-> _get_voice_for_speaker(speaker, mappings).voice,
                  text |-> join(<<" ">>, text),
                  speaker |-> speaker,
                  src |-> src])

\* The line the loop body works on: line = line.strip()
CurrentLine == strip(lines[line_no])

InLoop == ppc = "loop" /\ line_no <= Len(lines)

\* A loop that skips no line.
IsBlankNever(line) == FALSE

\* if not line
IsBlank(line) == line = <<>>

\* A continuation that leaves scene directions out.
AppendUnlessDirection(text, line) ==
    IF _is_scene_direction(line) THEN text ELSE Append(text, line)

\* current_text.append(line)
AppendLine(text, line) == Append(text, line)

ParseBegin ==
    /\ ppc = "start"
    /\ lines' = split_lines(script_text)
    /\ line_no' = 1
    /\ current_speaker' = None
    /\ current_text' = <<>>
    /\ current_src' = {}
    /\ segments' = <<>>
    /\ ppc' = "loop"
    /\ UNCHANGED <<script_text, voice_mappings>>
    /\ UNCHANGED <<dvars, vvars, avars, cvars, svars, evars, hvars, bvars>>

\* if not line: continue
ParseBlank ==
    /\ InLoop
    /\ IsBlank(CurrentLine)
    /\ line_no' = line_no + 1
    /\ UNCHANGED <<script_text, voice_mappings, lines, current_speaker,
                   current_text, current_src, segments, ppc>>
    /\ UNCHANGED <<dvars, vvars, avars, cvars, svars, evars, hvars, bvars>>

\* if speaker_match: ...
ParseCue ==
    /\ InLoop
    /\ ~IsBlank(CurrentLine)
    /\ LET speaker_match == _detect_speaker(CurrentLine)
           flush == ShouldFlush(current_speaker, current_text)
       IN  /\ speaker_match.matched
           /\ segments' =
                 IF flush
                 THEN AppendSegment(segments, current_speaker, current_text,
                                    current_src, voice_mappings)
                 ELSE segments
           /\ current_speaker' = speaker_match.speaker
           /\ current_text' =
                 IF speaker_match.dialogue # <<>>
                 THEN Append(IF flush THEN <<>> ELSE current_text,
                             speaker_match.dialogue)
                 ELSE IF flush THEN <<>> ELSE current_text
           /\ current_src' =
                 IF speaker_match.dialogue # <<>>
                 THEN (IF flush THEN {} ELSE current_src) \cup {line_no}
                 ELSE IF flush THEN {} ELSE current_src
    /\ line_no' = line_no + 1
    /\ UNCHANGED <<script_text, voice_mappings, lines, ppc>>
    /\ UNCHANGED <<dvars, vvars, avars, cvars, svars, evars, hvars, bvars>>

\* else: if current_speaker: current_text.append(line)
ParseContinuation ==
    /\ InLoop
    /\ ~IsBlank(CurrentLine)
    /\ ~_detect_speaker(CurrentLine).matched
    /\ current_speaker # None
    /\ current_text' = AppendLine(current_text, CurrentLine)
    /\ current_src' = current_src \cup {line_no}
    /\ line_no' = line_no + 1
    /\ UNCHANGED <<script_text, voice_mappings, lines, current_speaker,
                   segments, ppc>>
    /\ UNCHANGED <<dvars, vvars, avars, cvars, svars, evars, hvars, bvars>>

\* else: if not self._is_scene_direction(line): current_speaker = "NARRATOR"
ParseNarration ==
    /\ InLoop
    /\ ~IsBlank(CurrentLine)
    /\ ~_detect_speaker(CurrentLine).matched
    /\ current_speaker = None
    /\ ~_is_scene_direction(CurrentLine)
    /\ current_speaker' = <<"N","A","R","R","A","T","O","R">>
    /\ current_text' = Append(current_text, CurrentLine)
    /\ current_src' = current_src \cup {line_no}
    /\ line_no' = line_no + 1
    /\ UNCHANGED <<script_text, voice_mappings, lines, segments, ppc>>
    /\ UNCHANGED <<dvars, vvars, avars, cvars, svars, evars, hvars, bvars>>

\* a scene direction read while no speaker is active: nothing is done
ParseSceneDirection ==
    /\ InLoop
    /\ ~IsBlank(CurrentLine)
    /\ ~_detect_speaker(CurrentLine).matched
    /\ current_speaker = None
    /\ _is_scene_direction(CurrentLine)
    /\ line_no' = line_no + 1
    /\ UNCHANGED <<script_text, voice_mappings, lines, current_speaker,
                   current_text, current_src, segments, ppc>>
    /\ UNCHANGED <<dvars, vvars, avars, cvars, svars, evars, hvars, bvars>>

\* Add final segment; return segments
ParseEnd ==
    /\ ppc = "loop"
    /\ line_no > Len(lines)
    /\ segments' =
          IF ShouldFlush(current_speaker, current_text)
          THEN AppendSegment(segments, current_speaker, current_text,
                             current_src, voice_mappings)
          ELSE segments
    /\ ppc' = "done"
    /\ UNCHANGED <<script_text, voice_mappings, lines, line_no,
                   current_speaker, current_text, current_src>>
    /\ UNCHANGED <<dvars, vvars, avars, cvars, svars, evars, hvars, bvars>>

ParseIdle ==
    /\ script_text = <<>>
    /\ voice_mappings = <<>>
    /\ lines = <<>>
    /\ line_no = 0
    /\ current_speaker = None
    /\ current_text = <<>>
    /\ current_src = {}
    /\ segments = <<>>
    /\ ppc = "idle"

ParseInit ==
    /\ script_text \in ScriptTexts
    /\ voice_mappings \in ParseVoiceMaps
    /\ lines = <<>>
    /\ line_no = 0
    /\ current_speaker = None
    /\ current_text = <<>>
    /\ current_src = {}
    /\ segments = <<>>
    /\ ppc = "start"

-----------------------------------------------------------------------------
(* _detect_speaker on one line *)

DetectAlphabet == {"A", "b", " ", ":", "-"}

DetectLines ==
    LineVocab
    \cup { <<"N","I","G","H","T">>, <<"*","*","A","L","*","*"," ","h","e","y">>, <<"A",":"," ","h","e","l","l","o">>, <<"I","N","T",":"," ","x">>, <<"D","A","Y"," ",":"," ","x">>, <<"J","O","H","N",":"," "," ">>, <<"J","O","H","N"," ",":"," ","h","i">>,
           <<"M","R","."," ","O","'","N","E","I","L","-","L","E","E",":"," ","h","i">>, <<"(","J","O","H","N",")"," ","h","i">>, <<"*","*","A","L","*","*">> }
    \cup UNION {[1..n -> DetectAlphabet] : n \in 0..MaxChars}

DetectCall ==
    /\ dpc = "start"
    /\ d_match' = _detect_speaker(d_line)
    /\ dpc' = "done"
    /\ UNCHANGED d_line
    /\ UNCHANGED <<pvars, vvars, avars, cvars, svars, evars, hvars, bvars>>

DetectIdle ==
    /\ d_line = <<>>
    /\ d_match = NoMatch
    /\ dpc = "idle"

DetectInit ==
    /\ d_line \in DetectLines
    /\ d_match = NoMatch
    /\ dpc = "start"

-----------------------------------------------------------------------------
(* _get_voice_for_speaker on one speaker *)

SpeakerNames == {
    <<"J","o","h","n">>, <<"J","O","H","N">>, <<"j","o","h","n"," ","s","m","i","t","h">>, <<"S","a","r","a","h"," ","C","o","n","n","o","r">>, <<"S","A","R","A","H">>,
    <<"N","A","R","R","A","T","O","R">>, <<"N","a","r","r","a","t","o","r">>, <<"T","H","E"," ","N","A","R","R","A","T","O","R">>, <<"N","A","R","R","A","T","O","R"," ","T","W","O">>, <<"O","l","d"," ","n","a","r","r">>,
    <<"J","O","H","N"," ","N","A","R","R","A","T","O","R">>, <<"B","O","B">>, <<"Z","E","D">>, <<"M","R","."," ","J","O","H","N">> }

VoiceMaps == {
    <<>>,
    << <<<<"J","O","H","N">>, "x">> >>,
    << <<<<"j","o","h","n">>, "y">> >>,
    << <<<<"j","o","h","n">>, "y">>, <<<<"J","O","H","N">>, "x">> >>,
    << <<<<"j","o","h","n">>, "y">>, <<<<"J","o","h","n">>, "z">> >>,
    << <<<<"s","a","r","a","h"," ","c","o","n","n","o","r">>, "x">> >>,
    << <<<<"T","H","E"," ","N","A","R","R","A","T","O","R">>, "x">>, <<<<"Z","E","D">>, "y">> >>,
    << <<<<"S","A","R","A","H">>, "x">>, <<<<"n","a","r","r","a","t","o","r">>, "y">> >> }

VoiceCall ==
    /\ vpc = "start"
    /\ v_result' = _get_voice_for_speaker(v_speaker, v_map)
    /\ vpc' = "done"
    /\ UNCHANGED <<v_speaker, v_map>>
    /\ UNCHANGED <<pvars, dvars, avars, cvars, svars, evars, hvars, bvars>>

VoiceIdle ==
    /\ v_speaker = <<>>
    /\ v_map = <<>>
    /\ v_result = Voice("", "")
    /\ vpc = "idle"

VoiceInit ==
    /\ v_speaker \in SpeakerNames
    /\ v_map \in VoiceMaps
    /\ v_result = Voice("", "")
    /\ vpc = "start"

-----------------------------------------------------------------------------
(* Samples: exact linear combinations of the input samples *)

\* The j-th sample of the w-th input waveform.
InputSample(w, j) == [num |-> (<<w, j>> :> 1), den |-> 1]

\* An input waveform of len samples.
InputWave(w, len) == [j \in 1..len |-> InputSample(w, j)]

\* The same value over the smallest denominator.
Reduce(x) ==
    LET divs == {d \in 1..x.den :
                    /\ x.den % d = 0
                    /\ \A s \in DOMAIN x.num : x.num[s] % d = 0}
        g == CHOOSE d \in divs : \A e \in divs : e <= d
    IN  [num |-> [s \in DOMAIN x.num |-> x.num[s] \div g], den |-> x.den \div g]

\* x * (w[1] / w[2])
Scale(x, w) ==
    Reduce([num |-> [s \in {t \in DOMAIN x.num : x.num[t] * w[1] # 0} |->
                        x.num[s] * w[1]],
            den |-> x.den * w[2]])

Coef(x, s) == IF s \in DOMAIN x.num THEN x.num[s] ELSE 0

\* x + y
Plus(x, y) ==
    Reduce([num |-> [s \in DOMAIN x.num \cup DOMAIN y.num |->
                        Coef(x, s) * y.den + Coef(y, s) * x.den],
            den |-> x.den * y.den])

\* The input waveforms a sample depends on.
WavesOf(x) == {s[1] : s \in DOMAIN x.num}

-----------------------------------------------------------------------------
(* AudioProcessor.concatenate_with_crossfade *)

\* A fade-out that leaves the end point out (endpoint=False).
fade_out_open(n, i) == <<n - i, n>>

\* np.linspace(1.0, 0.0, n)[i] and np.linspace(0.0, 1.0, n)[i], i from 0, as
\* <<numerator, denominator>>; np.linspace(start, stop, 1) is [start].
fade_out(n, i) == IF n = 1 THEN <<1, 1>> ELSE <<n - 1 - i, n - 1>>

\* A fade-in that leaves the start point out.
fade_in_late(n, i) == <<i + 1, n>>

fade_in(n, i) == IF n = 1 THEN <<0, 1>> ELSE <<i, n - 1>>

\* int(x / 1000): int truncates toward zero
IntDiv1000(x) == IF x >= 0 THEN x \div 1000 ELSE -((-x) \div 1000)

\* A window rounded to the nearest integer.
CrossfadeSamplesRounded(rate, ms) == (rate * ms + 500) \div 1000

\* crossfade_samples = int(self.sample_rate * crossfade_duration_ms / 1000)
CrossfadeSamples(rate, ms) == IntDiv1000(rate * ms)

\* tail = result[-n:] * fade_out; head = current[:n] * fade_in; tail + head
Crossfaded(res, current, n) ==
    [j \in 1..n |->
        Plus(Scale(res[Len(res) - n + j], fade_out(n, j - 1)),
             Scale(current[j], fade_in(n, j - 1)))]

\* A concatenation that leaves out the rest of current.
CrossfadeStepDropRest(res, current, n) ==
    SubSeq(res, 1, Len(res) - n) \o Crossfaded(res, current, n)

\* np.concatenate([result[:-n], crossfaded, current[n:]])
CrossfadeStep(res, current, n) ==
    SubSeq(res, 1, Len(res) - n) \o Crossfaded(res, current, n)
        \o SubSeq(current, n + 1, Len(current))

\* if crossfade_samples > 0 and len(result) >= crossfade_samples
TailFits(res, n) == n > 0 /\ Len(res) >= n

\* A test with > for >=.
HeadFitsStrict(current, n) == Len(current) > n

\* if len(current) >= crossfade_samples
HeadFits(current, n) == Len(current) >= n

SampleRates == {1000, 1999, 500, 24000}

WaveLists ==
    UNION {{[w \in 1..k |-> InputWave(w, lens[w])] : lens \in [1..k -> 0..MaxLen]}
            : k \in 0..MaxWaves}

InFold == apc = "loop" /\ seg_no <= Len(audio_segments)

\* An empty list answered with an empty result.
EmptyListReturns == "returned"

\* raise ValueError("No audio segments provided")
EmptyListOutcome == "raised"

\* A single waveform cut by one sample.
SingleSegmentTrimmed(segs) == SubSeq(segs[1], 1, Len(segs[1]) - 1)

\* return audio_segments[0]
SingleSegment(segs) == segs[1]

\* if not audio_segments: raise ValueError
ConcatEmpty ==
    /\ apc = "start"
    /\ audio_segments = <<>>
    /\ apc' = EmptyListOutcome
    /\ UNCHANGED <<sample_rate, crossfade_duration_ms, audio_segments,
                   crossfade_samples, result, seg_no, step_kind>>
    /\ UNCHANGED <<pvars, dvars, vvars, cvars, svars, evars, hvars, bvars>>

\* if len(audio_segments) == 1: return audio_segments[0]
ConcatSingle ==
    /\ apc = "start"
    /\ Len(audio_segments) = 1
    /\ result' = SingleSegment(audio_segments)
    /\ apc' = "returned"
    /\ UNCHANGED <<sample_rate, crossfade_duration_ms, audio_segments,
                   crossfade_samples, seg_no, step_kind>>
    /\ UNCHANGED <<pvars, dvars, vvars, cvars, svars, evars, hvars, bvars>>

\* crossfade_samples = ...; result = audio_segments[0]
ConcatBegin ==
    /\ apc = "start"
    /\ Len(audio_segments) >= 2
    /\ crossfade_samples' = CrossfadeSamples(sample_rate, crossfade_duration_ms)
    /\ result' = audio_segments[1]
    /\ seg_no' = 2
    /\ apc' = "loop"
    /\ UNCHANGED <<sample_rate, crossfade_duration_ms, audio_segments, step_kind>>
    /\ UNCHANGED <<pvars, dvars, vvars, cvars, svars, evars, hvars, bvars>>

\* Apply crossfade
ConcatCrossfade ==
    /\ InFold
    /\ TailFits(result, crossfade_samples)
    /\ HeadFits(audio_segments[seg_no], crossfade_samples)
    /\ result' = CrossfadeStep(result, audio_segments[seg_no], crossfade_samples)
    /\ seg_no' = seg_no + 1
    /\ step_kind' = "crossfade"
    /\ UNCHANGED <<sample_rate, crossfade_duration_ms, audio_segments,
                   crossfade_samples, apc>>
    /\ UNCHANGED <<pvars, dvars, vvars, cvars, svars, evars, hvars, bvars>>

\* Current segment too short for crossfade
ConcatShortCurrent ==
    /\ InFold
    /\ TailFits(result, crossfade_samples)
    /\ ~HeadFits(audio_segments[seg_no], crossfade_samples)
    /\ result' = result \o audio_segments[seg_no]
    /\ seg_no' = seg_no + 1
    /\ step_kind' = "short_current"
    /\ UNCHANGED <<sample_rate, crossfade_duration_ms, audio_segments,
                   crossfade_samples, apc>>
    /\ UNCHANGED <<pvars, dvars, vvars, cvars, svars, evars, hvars, bvars>>

\* No crossfade, simple concatenation
ConcatAppend ==
    /\ InFold
    /\ ~TailFits(result, crossfade_samples)
    /\ result' = result \o audio_segments[seg_no]
    /\ seg_no' = seg_no + 1
    /\ step_kind' = "append"
    /\ UNCHANGED <<sample_rate, crossfade_duration_ms, audio_segments,
                   crossfade_samples, apc>>
    /\ UNCHANGED <<pvars, dvars, vvars, cvars, svars, evars, hvars, bvars>>

\* return result
ConcatReturn ==
    /\ apc = "loop"
    /\ seg_no > Len(audio_segments)
    /\ apc' = "returned"
    /\ UNCHANGED <<sample_rate, crossfade_duration_ms, audio_segments,
                   crossfade_samples, result, seg_no, step_kind>>
    /\ UNCHANGED <<pvars, dvars, vvars, cvars, svars, evars, hvars, bvars>>

AudioIdle ==
    /\ sample_rate = 24000
    /\ crossfade_duration_ms = 0
    /\ audio_segments = <<>>
    /\ crossfade_samples = 0
    /\ result = <<>>
    /\ seg_no = 0
    /\ step_kind = "none"
    /\ apc = "idle"

AudioInit ==
    /\ sample_rate \in SampleRates
    /\ crossfade_duration_ms \in 0..MaxMs
    /\ audio_segments \in WaveLists
    /\ crossfade_samples = 0
    /\ result = <<>>
    /\ seg_no = 0
    /\ step_kind = "none"
    /\ apc = "start"

-----------------------------------------------------------------------------
(* ScriptParser.detect_characters *)

\* character_counts[key] += 1 on a Counter: a sequence of <<key, count>>
\* pairs with distinct keys, in the order the keys were first counted.
Increment(counts, key) ==
    IF key \in MapKeys(counts)
    THEN [k \in 1..Len(counts) |->
             IF counts[k][1] = key THEN <<key, counts[k][2] + 1>> ELSE counts[k]]
    ELSE Append(counts, <<key, 1>>)

\* The body of the loop: the line is handed to _detect_speaker as it is.
CountLine(counts, line) ==
    LET speaker_match == _detect_speaker(line)
        speaker == upper(speaker_match.speaker)
    IN  IF speaker_match.matched /\ speaker \notin scene_keywords
        THEN Increment(counts, speaker)
        ELSE counts

RECURSIVE CountLines(_, _)
CountLines(ls, counts) ==
    IF ls = <<>> THEN counts
    ELSE CountLines(Tail(ls), CountLine(counts, Head(ls)))

detect_characters(text) == CountLines(split_lines(text), <<>>)

CharacterScripts ==
    ScriptTexts \cup { <<"J","O","H","N",":"," ","h","i","\n","S","A","R","A","H",":"," ","y","o","\n","J","O","H","N",":"," ","h","i","\n","J","O","H","N",":"," ","h","i">> }

CharactersCall ==
    /\ cpc = "start"
    /\ characters' = detect_characters(c_text)
    /\ cpc' = "done"
    /\ UNCHANGED c_text
    /\ UNCHANGED <<pvars, dvars, vvars, avars, svars, evars, hvars, bvars>>

CharactersIdle ==
    /\ c_text = <<>>
    /\ characters = <<>>
    /\ cpc = "idle"

CharactersInit ==
    /\ c_text \in CharacterScripts
    /\ characters = <<>>
    /\ cpc = "start"

-----------------------------------------------------------------------------
(* ScriptParser.suggest_voice_mappings *)

\* The speakers of the scripts, by what the name tables make of them; a
\* script takes the names of a kind in this order and starts over when it
\* runs out of them, so that a speaker can have several cue lines.
SuggestNames ==
    [male |-> << <<"T","O","M">>, <<"B","O","B">>, <<"J","O","H","N"," ","S","M","I","T","H">> >>,
     female |-> << <<"M","A","R","Y">>, <<"L","I","S","A">>, <<"E","M","M","A">>, <<"S","A","R","A","H">>, <<"B","E","T","T","Y">>, <<"L","I","N","D","A">> >>,
     unknown |-> << <<"Z","E","D">>, <<"K","A","I">>, <<"O","L","D"," ","N","A","R","R","A","T","O","R">> >>,
     narrator |-> << <<"N","A","R","R","A","T","O","R">> >>]

Kinds == DOMAIN SuggestNames

NameAt(kinds, i) ==
    LET pool == SuggestNames[kinds[i]]
        before == Cardinality({j \in 1..(i - 1) : kinds[j] = kinds[i]})
    IN  pool[(before % Len(pool)) + 1]

SuggestScripts ==
    {join(<<"\n">>, [i \in 1..Len(kinds) |-> NameAt(kinds, i) \o <<":"," ","x">>]) :
        kinds \in UNION {[1..n -> Kinds] : n \in 0..MaxSpeakers}}

\* A pool read at the first voice whatever the index is.
PoolVoiceFirst(voices, idx) == voices[1]

\* voices[idx % len(voices)]
PoolVoice(voices, idx) == voices[(idx % Len(voices)) + 1]

\* for character in characters.keys()
InSuggestLoop == spc = "loop" /\ s_no <= Len(s_characters)

Character == s_characters[s_no][1]

\* char_lower = character.lower().split()[0]
char_lower == first_word(lower(Character))

\* characters = self.detect_characters(script_text); suggestions = {}
SuggestBegin ==
    /\ spc = "start"
    /\ s_characters' = detect_characters(s_text)
    /\ suggestions' = <<>>
    /\ male_voice_idx' = 0
    /\ female_voice_idx' = 0
    /\ s_no' = 1
    /\ spc' = "loop"
    /\ UNCHANGED s_text
    /\ UNCHANGED <<pvars, dvars, vvars, avars, cvars, evars, hvars, bvars>>

\* if 'narr' in char_lower
SuggestNarrator ==
    /\ InSuggestLoop
    /\ contains(char_lower, <<"n","a","r","r">>)
    /\ suggestions' = Append(suggestions, <<Character, "af_heart">>)
    /\ s_no' = s_no + 1
    /\ UNCHANGED <<s_text, s_characters, male_voice_idx, female_voice_idx, spc>>
    /\ UNCHANGED <<pvars, dvars, vvars, avars, cvars, evars, hvars, bvars>>

\* elif char_lower in self.male_names
SuggestMale ==
    /\ InSuggestLoop
    /\ ~contains(char_lower, <<"n","a","r","r">>)
    /\ char_lower \in male_names
    /\ suggestions' =
          Append(suggestions,
                 <<Character, PoolVoice(available_voices.male, male_voice_idx)>>)
    /\ male_voice_idx' = male_voice_idx + 1
    /\ s_no' = s_no + 1
    /\ UNCHANGED <<s_text, s_characters, female_voice_idx, spc>>
    /\ UNCHANGED <<pvars, dvars, vvars, avars, cvars, evars, hvars, bvars>>

\* elif char_lower in self.female_names
SuggestFemale ==
    /\ InSuggestLoop
    /\ ~contains(char_lower, <<"n","a","r","r">>)
    /\ char_lower \notin male_names
    /\ char_lower \in female_names
    /\ suggestions' =
          Append(suggestions,
                 <<Character, PoolVoice(available_voices.female, female_voice_idx)>>)
    /\ female_voice_idx' = female_voice_idx + 1
    /\ s_no' = s_no + 1
    /\ UNCHANGED <<s_text, s_characters, male_voice_idx, spc>>
    /\ UNCHANGED <<pvars, dvars, vvars, avars, cvars, evars, hvars, bvars>>

\* else: if len(suggestions) % 2 == 0: 'am_adam' else: 'af_bella'
SuggestAlternate ==
    /\ InSuggestLoop
    /\ ~contains(char_lower, <<"n","a","r","r">>)
    /\ char_lower \notin male_names
    /\ char_lower \notin female_names
    /\ suggestions' =
          Append(suggestions,
                 <<Character,
                   IF Len(suggestions) % 2 = 0 THEN "am_adam" ELSE "af_bella">>)
    /\ s_no' = s_no + 1
    /\ UNCHANGED <<s_text, s_characters, male_voice_idx, female_voice_idx, spc>>
    /\ UNCHANGED <<pvars, dvars, vvars, avars, cvars, evars, hvars, bvars>>

\* return suggestions
SuggestReturn ==
    /\ spc = "loop"
    /\ s_no > Len(s_characters)
    /\ spc' = "done"
    /\ UNCHANGED <<s_text, s_characters, s_no, suggestions, male_voice_idx,
                   female_voice_idx>>
    /\ UNCHANGED <<pvars, dvars, vvars, avars, cvars, evars, hvars, bvars>>

SuggestIdle ==
    /\ s_text = <<>>
    /\ s_characters = <<>>
    /\ s_no = 0
    /\ suggestions = <<>>
    /\ male_voice_idx = 0
    /\ female_voice_idx = 0
    /\ spc = "idle"

SuggestInit ==
    /\ s_text \in SuggestScripts
    /\ s_characters = <<>>
    /\ s_no = 0
    /\ suggestions = <<>>
    /\ male_voice_idx = 0
    /\ female_voice_idx = 0
    /\ spc = "start"

-----------------------------------------------------------------------------
(* KokoroTTSEngine.synthesize *)

\* The keys of self.voices.
EngineVoices ==
    { "af_bella", "af_sarah", "af_heart", "af_sky", "af_nicole",
      "am_adam", "am_michael",
      "bf_emma", "bf_isabella", "bm_george", "bm_lewis" }

\* The voice identifiers of the requests.
VoiceIds == EngineVoices \cup { "", "x", "AF_HEART", "af_heart ", "am_john" }

EngineTexts == { <<>>, <<" "," ">>, <<"h","i">>, <<" ","h","i"," ">> }

\* A voice handed on as it was given.
ResolveVoiceAsGiven(voice) == voice

\* if voice not in self.voices: voice = 'af_heart'
ResolveVoice(voice) == IF voice \notin EngineVoices THEN "af_heart" ELSE voice

\* if not self.pipeline: raise RuntimeError
SynthNotReady ==
    /\ epc = "start"
    /\ ~e_ready
    /\ epc' = "RuntimeError"
    /\ UNCHANGED <<e_ready, e_text, e_voice, pipeline_voice>>
    /\ UNCHANGED <<pvars, dvars, vvars, avars, cvars, svars, hvars, bvars>>

\* if not text.strip(): raise ValueError
SynthEmptyText ==
    /\ epc = "start"
    /\ e_ready
    /\ strip(e_text) = <<>>
    /\ epc' = "ValueError"
    /\ UNCHANGED <<e_ready, e_text, e_voice, pipeline_voice>>
    /\ UNCHANGED <<pvars, dvars, vvars, avars, cvars, svars, hvars, bvars>>

\* Validate voice; generator = self.pipeline(text, voice=voice, speed=speed)
SynthCallPipeline ==
    /\ epc = "start"
    /\ e_ready
    /\ strip(e_text) # <<>>
    /\ pipeline_voice' = ResolveVoice(e_voice)
    /\ epc' = "pipeline"
    /\ UNCHANGED <<e_ready, e_text, e_voice>>
    /\ UNCHANGED <<pvars, dvars, vvars, avars, cvars, svars, hvars, bvars>>

\* the pipeline yields audio: return np.concatenate(audio_chunks)
PipelineYields ==
    /\ epc = "pipeline"
    /\ epc' = "returned"
    /\ UNCHANGED <<e_ready, e_text, e_voice, pipeline_voice>>
    /\ UNCHANGED <<pvars, dvars, vvars, avars, cvars, svars, hvars, bvars>>

\* the pipeline raises or yields nothing: except Exception: raise RuntimeError
PipelineFails ==
    /\ epc = "pipeline"
    /\ epc' = "RuntimeError"
    /\ UNCHANGED <<e_ready, e_text, e_voice, pipeline_voice>>
    /\ UNCHANGED <<pvars, dvars, vvars, avars, cvars, svars, hvars, bvars>>

EngineIdle ==
    /\ e_ready = FALSE
    /\ e_text = <<>>
    /\ e_voice = ""
    /\ pipeline_voice = ""
    /\ epc = "idle"

EngineInit ==
    /\ e_ready \in BOOLEAN
    /\ e_text \in EngineTexts
    /\ e_voice \in VoiceIds
    /\ pipeline_voice = ""
    /\ epc = "start"

-----------------------------------------------------------------------------
(* parse_script called twice on one ScriptParser: on a script, then on the
   same script without its blank lines *)

BlankVocab == {
    <<"J","O","H","N",":"," ","h","i">>, <<"S","A","R","A","H",":"," ","y","o">>, <<"J","O","H","N">>, <<"h","e","l","l","o">>, <<"(","s","i","g","h","s",")">>, <<>>, <<" ">> }

BlankScripts ==
    {join(<<"\n">>, ls) : ls \in UNION {[1..n -> BlankVocab] : n \in 1..MaxLines}}

NotBlankLine(line) == strip(line) # <<>>

\* The script with its empty and whitespace-only lines deleted.
WithoutBlankLines(text) ==
    join(<<"\n">>, SelectSeq(split_lines(text), NotBlankLine))

\* The (voice, text) tuples parse_script returns.
Returned(segs) ==
    [k \in 1..Len(segs) |-> [voice |-> segs[k].voice, text |-> segs[k].text]]

\* The first call has returned; the second call gets the script without its
\* blank lines.
ParseAgain ==
    /\ ppc = "done"
    /\ round = 1
    /\ first_segments' = segments
    /\ script_text' = WithoutBlankLines(script_text)
    /\ round' = 2
    /\ ppc' = "start"
    /\ UNCHANGED <<voice_mappings, lines, line_no, current_speaker,
                   current_text, current_src, segments>>
    /\ UNCHANGED <<dvars, vvars, avars, cvars, svars, evars, hvars>>

BlankIdle ==
    /\ round = 0
    /\ first_segments = <<>>

BlankInit ==
    /\ script_text \in BlankScripts
    /\ voice_mappings \in ParseVoiceMaps
    /\ lines = <<>>
    /\ line_no = 0
    /\ current_speaker = None
    /\ current_text = <<>>
    /\ current_src = {}
    /\ segments = <<>>
    /\ ppc = "start"
    /\ round = 1
    /\ first_segments = <<>>

-----------------------------------------------------------------------------
(* synthesize_text, the handler of POST /synthesize/text.  Its body is one
   try block whose handler is "except Exception"; HTTPException is a
   subclass of Exception. *)

NoException == [type |-> "none", status_code |-> 0, detail |-> ""]

\* HTTPException(status_code=..., detail=...)
HTTPException(status_code, detail) ==
    [type |-> "HTTPException", status_code |-> status_code, detail |-> detail]

NoResponse == [status_code |-> 0, detail |-> ""]

\* request.text
EndpointTexts == BlankScripts

\* if not request.text.strip(): raise HTTPException(status_code=400, ...)
HandleEmptyText ==
    /\ hpc = "start"
    /\ strip(request_text) = <<>>
    /\ h_exception' = HTTPException(400, "Text cannot be empty")
    /\ hpc' = "except"
    /\ UNCHANGED <<request_text, response, engine_calls, concat_calls>>
    /\ UNCHANGED <<pvars, dvars, vvars, avars, cvars, svars, evars, bvars>>

\* segments = script_parser.parse_script(request.text, voice_mappings=...)
HandleParse ==
    /\ hpc = "start"
    /\ strip(request_text) # <<>>
    /\ script_text' = request_text
    /\ voice_mappings' \in ParseVoiceMaps \cup {<<>>}
    /\ ppc' = "start"
    /\ hpc' = "parse"
    /\ UNCHANGED <<lines, line_no, current_speaker, current_text, current_src,
                   segments>>
    /\ UNCHANGED <<request_text, h_exception, response, engine_calls,
                   concat_calls>>
    /\ UNCHANGED <<dvars, vvars, avars, cvars, svars, evars, bvars>>

\* if not segments: raise HTTPException(status_code=400, ...)
HandleNoSegments ==
    /\ hpc = "parse"
    /\ ppc = "done"
    /\ segments = <<>>
    /\ h_exception' =
          HTTPException(400, "No dialogue detected. Use format: 'CHARACTER: dialogue'")
    /\ hpc' = "except"
    /\ UNCHANGED <<request_text, response, engine_calls, concat_calls>>
    /\ UNCHANGED <<pvars, dvars, vvars, avars, cvars, svars, evars, bvars>>

\* audio_segments = []; for voice, text in segments
HandleSegments ==
    /\ hpc = "parse"
    /\ ppc = "done"
    /\ segments # <<>>
    /\ hpc' = "synth"
    /\ UNCHANGED <<request_text, h_exception, response, engine_calls,
                   concat_calls>>
    /\ UNCHANGED <<pvars, dvars, vvars, avars, cvars, svars, evars, bvars>>

\* audio_data = tts_engine.synthesize(...) returns
HandleSynthesize ==
    /\ hpc = "synth"
    /\ engine_calls < Len(segments)
    /\ engine_calls' = engine_calls + 1
    /\ UNCHANGED <<request_text, h_exception, response, concat_calls, hpc>>
    /\ UNCHANGED <<pvars, dvars, vvars, avars, cvars, svars, evars, bvars>>

\* tts_engine.synthesize(...) raises RuntimeError
HandleSynthesizeFails ==
    /\ hpc = "synth"
    /\ engine_calls < Len(segments)
    /\ engine_calls' = engine_calls + 1
    /\ h_exception' =
          [type |-> "RuntimeError", status_code |-> 0, detail |-> "Synthesis failed"]
    /\ hpc' = "except"
    /\ UNCHANGED <<request_text, response, concat_calls>>
    /\ UNCHANGED <<pvars, dvars, vvars, avars, cvars, svars, evars, bvars>>

\* final_audio = audio_processor.concatenate_with_crossfade(...);
\* return FileResponse(...)
HandleConcatenate ==
    /\ hpc = "synth"
    /\ engine_calls = Len(segments)
    /\ concat_calls' = concat_calls + 1
    /\ response' = [status_code |-> 200, detail |-> "audio/wav"]
    /\ hpc' = "responded"
    /\ UNCHANGED <<request_text, h_exception, engine_calls>>
    /\ UNCHANGED <<pvars, dvars, vvars, avars, cvars, svars, evars, bvars>>

\* except Exception as e: raise HTTPException(status_code=500, detail=str(e))
\* catches whatever was raised in the try block; the text of str(e) is left
\* open.
HandleExcept ==
    /\ hpc = "except"
    /\ response' = [status_code |-> 500, detail |-> "str(e)"]
    /\ hpc' = "responded"
    /\ UNCHANGED <<request_text, h_exception, engine_calls, concat_calls>>
    /\ UNCHANGED <<pvars, dvars, vvars, avars, cvars, svars, evars, bvars>>

EndpointIdle ==
    /\ request_text = <<>>
    /\ h_exception = NoException
    /\ response = NoResponse
    /\ engine_calls = 0
    /\ concat_calls = 0
    /\ hpc = "idle"

EndpointInit ==
    /\ request_text \in EndpointTexts
    /\ h_exception = NoException
    /\ response = NoResponse
    /\ engine_calls = 0
    /\ concat_calls = 0
    /\ hpc = "start"

-----------------------------------------------------------------------------
(* Specifications: one per operation, the other operations idle *)

OthersIdle ==
    CharactersIdle /\ SuggestIdle /\ EngineIdle /\ EndpointIdle /\ BlankIdle

InitParse == ParseInit /\ DetectIdle /\ VoiceIdle /\ AudioIdle /\ OthersIdle
NextParse ==
    \/ ParseBegin
    \/ ParseBlank
    \/ ParseCue
    \/ ParseContinuation
    \/ ParseNarration
    \/ ParseSceneDirection
    \/ ParseEnd
SpecParse == InitParse /\ [][NextParse]_vars

InitDetect == ParseIdle /\ DetectInit /\ VoiceIdle /\ AudioIdle /\ OthersIdle
NextDetect == DetectCall
SpecDetect == InitDetect /\ [][NextDetect]_vars

InitVoice == ParseIdle /\ DetectIdle /\ VoiceInit /\ AudioIdle /\ OthersIdle
NextVoice == VoiceCall
SpecVoice == InitVoice /\ [][NextVoice]_vars

InitAudio == ParseIdle /\ DetectIdle /\ VoiceIdle /\ AudioInit /\ OthersIdle
NextAudio ==
    \/ ConcatEmpty
    \/ ConcatSingle
    \/ ConcatBegin
    \/ ConcatCrossfade
    \/ ConcatShortCurrent
    \/ ConcatAppend
    \/ ConcatReturn
SpecAudio == InitAudio /\ [][NextAudio]_vars

InitCharacters ==
    /\ ParseIdle /\ DetectIdle /\ VoiceIdle /\ AudioIdle
    /\ CharactersInit /\ SuggestIdle /\ EngineIdle /\ EndpointIdle /\ BlankIdle
NextCharacters == CharactersCall
SpecCharacters == InitCharacters /\ [][NextCharacters]_vars

InitSuggest ==
    /\ ParseIdle /\ DetectIdle /\ VoiceIdle /\ AudioIdle
    /\ CharactersIdle /\ SuggestInit /\ EngineIdle /\ EndpointIdle /\ BlankIdle
NextSuggest ==
    \/ SuggestBegin
    \/ SuggestNarrator
    \/ SuggestMale
    \/ SuggestFemale
    \/ SuggestAlternate
    \/ SuggestReturn
SpecSuggest == InitSuggest /\ [][NextSuggest]_vars

InitEngine ==
    /\ ParseIdle /\ DetectIdle /\ VoiceIdle /\ AudioIdle
    /\ CharactersIdle /\ SuggestIdle /\ EngineInit /\ EndpointIdle /\ BlankIdle
NextEngine ==
    \/ SynthNotReady
    \/ SynthEmptyText
    \/ SynthCallPipeline
    \/ PipelineYields
    \/ PipelineFails
SpecEngine == InitEngine /\ [][NextEngine]_vars

InitEndpoint ==
    /\ ParseIdle /\ DetectIdle /\ VoiceIdle /\ AudioIdle
    /\ CharactersIdle /\ SuggestIdle /\ EngineIdle /\ EndpointInit /\ BlankIdle
NextEndpoint ==
    \/ HandleEmptyText
    \/ HandleParse
    \/ ParseBegin
    \/ ParseBlank
    \/ ParseCue
    \/ ParseContinuation
    \/ ParseNarration
    \/ ParseSceneDirection
    \/ ParseEnd
    \/ HandleNoSegments
    \/ HandleSegments
    \/ HandleSynthesize
    \/ HandleSynthesizeFails
    \/ HandleConcatenate
    \/ HandleExcept
SpecEndpoint == InitEndpoint /\ [][NextEndpoint]_vars

InitBlank ==
    /\ BlankInit /\ DetectIdle /\ VoiceIdle /\ AudioIdle
    /\ CharactersIdle /\ SuggestIdle /\ EngineIdle /\ EndpointIdle
NextBlank ==
    \/ ParseBegin
    \/ ParseBlank
    \/ ParseCue
    \/ ParseContinuation
    \/ ParseNarration
    \/ ParseSceneDirection
    \/ ParseEnd
    \/ ParseAgain
SpecBlank == InitBlank /\ [][NextBlank]_vars

Init ==
    \/ InitParse \/ InitDetect \/ InitVoice \/ InitAudio
    \/ InitCharacters \/ InitSuggest \/ InitEngine \/ InitBlank \/ InitEndpoint
Next ==
    \/ NextParse \/ NextDetect \/ NextVoice \/ NextAudio
    \/ NextCharacters \/ NextSuggest \/ NextEngine \/ NextBlank \/ NextEndpoint
Spec == Init /\ [][Next]_vars

-----------------------------------------------------------------------------
(* Properties of parse_script *)

\* What _detect_speaker makes of line k of the script.
CueAt(k) == _detect_speaker(strip(lines[k]))

\* An all-uppercase line whose text starts with a scene keyword.
IsSceneHeading(line) ==
    /\ \A k \in 1..Len(line) : ~IsLowerLetter(line[k])
    /\ \E keyword \in scene_keywords : startswith(line, keyword)

\* C1: a scene heading read while no speaker is active never opens a speaker
\* and is skipped entirely: the step that reads it leaves current_speaker
\* unset and changes neither the buffer nor the segments.
C1_SceneHeadingSkipped ==
    [][(InLoop /\ current_speaker = None /\ IsSceneHeading(CurrentLine))
         => /\ current_speaker' = None
            /\ current_text' = current_text
            /\ segments' = segments]_vars

FollowingLines(k) ==
    {m \in (k + 1)..Len(lines) :
        /\ strip(lines[m]) # <<>>
        /\ \A j \in (k + 1)..m : ~CueAt(j).matched}

IsBareCue(k) == CueAt(k).matched /\ CueAt(k).dialogue = <<>>

\* The line numbers of S in increasing order.
RECURSIVE Ascending(_)
Ascending(S) ==
    IF S = {} THEN <<>>
    ELSE LET m == CHOOSE x \in S : \A y \in S : x <= y
         IN  <<m>> \o Ascending(S \ {m})

\* The stripped lines of S, in script order, joined by spaces.
TextOfLines(S) ==
    LET asc == Ascending(S)
    IN  join(<<" ">>, [j \in 1..Len(asc) |-> strip(lines[asc[j]])])

\* A narration line comes before the first cue.
NarrationOpens ==
    \E m \in 1..Len(lines) :
       /\ \A j \in 1..m : ~CueAt(j).matched
       /\ strip(lines[m]) # <<>>
       /\ ~_is_scene_direction(strip(lines[m]))

\* C4: every emitted segment has non-empty text; a bare cue is discarded when
\* no continuation line follows it before the next cue or the end (it adds no
\* segment), and takes its text from the continuation lines otherwise.
C4_TextNeverEmpty ==
    /\ \A s \in 1..Len(segments) : segments[s].text # <<>>
    /\ ppc = "done" =>
          /\ Len(segments) =
                Cardinality({k \in 1..Len(lines) :
                                /\ CueAt(k).matched
                                /\ CueAt(k).dialogue # <<>> \/ FollowingLines(k) # {}})
                + (IF NarrationOpens THEN 1 ELSE 0)
          /\ \A k \in 1..Len(lines) :
                (IsBareCue(k) /\ FollowingLines(k) # {}) =>
                   \E s \in 1..Len(segments) :
                      /\ segments[s].src = FollowingLines(k)
                      /\ segments[s].speaker = CueAt(k).speaker
                      /\ segments[s].text = TextOfLines(FollowingLines(k))

C4_Witness ==
    /\ ppc = "done"
    /\ \E k \in 1..Len(lines) :
          /\ IsBareCue(k)
          /\ FollowingLines(k) = {}
          /\ k < Len(lines)
          /\ CueAt(k + 1).matched
    /\ \E k \in 1..Len(lines) : IsBareCue(k) /\ FollowingLines(k) # {}
    /\ Len(segments) = 1

\* The smallest line number of S.
FirstOf(S) == CHOOSE x \in S : \A y \in S : x <= y

\* Line k comes after the line that set the speaker: a cue, or a narration
\* line read while no speaker was active.
SpeakerSetBefore(k) ==
    \E j \in 1..(k - 1) :
       \/ CueAt(j).matched
       \/ strip(lines[j]) # <<>> /\ ~_is_scene_direction(strip(lines[j]))

\* Segment s was opened by a narration line, not by a cue.
FromNarration(s) ==
    /\ segments[s].speaker = <<"N","A","R","R","A","T","O","R">>
    /\ \A j \in 1..FirstOf(segments[s].src) : ~CueAt(j).matched

\* C19: once set, current_speaker is never cleared; from then on every
\* non-blank line that is no cue, scene directions and parenthesized lines
\* included, is appended to the buffer and ends up in a segment; the implicit
\* NARRATOR is opened only before the first cue and before any segment, so
\* only the first segment can come from narration.
C19_SpeakerNeverCleared ==
    /\ [][(ppc = "loop" /\ current_speaker # None) =>
             current_speaker' # None]_vars
    /\ [][(InLoop /\ current_speaker # None /\ CurrentLine # <<>>
              /\ ~CueAt(line_no).matched) =>
             /\ current_text' = Append(current_text, CurrentLine)
             /\ current_speaker' = current_speaker
             /\ segments' = segments]_vars
    /\ [][(InLoop /\ current_speaker = None /\ current_speaker' # None
              /\ ~CueAt(line_no).matched) =>
             /\ current_speaker' = <<"N","A","R","R","A","T","O","R">>
             /\ segments = <<>>
             /\ \A j \in 1..line_no : ~CueAt(j).matched]_vars
    /\ [](ppc = "done" =>
             /\ \A k \in 1..Len(lines) :
                   ( /\ SpeakerSetBefore(k)
                     /\ strip(lines[k]) # <<>>
                     /\ ~CueAt(k).matched )
                   => \E s \in 1..Len(segments) : k \in segments[s].src
             /\ \A s \in 1..Len(segments) : FromNarration(s) => s = 1)

C19_Witness ==
    /\ ppc = "done"
    /\ script_text = <<"h","e","l","l","o","\n","J","O","H","N",":"," ","h","i","\n","(","s","i","g","h","s",")">>
    /\ Len(segments) = 2
    /\ FromNarration(1)
    /\ segments[1].text = <<"h","e","l","l","o">>
    /\ segments[2].speaker = <<"J","O","H","N">>
    /\ segments[2].text = <<"h","i"," ","(","s","i","g","h","s",")">>
    /\ segments[2].src = {2, 3}

-----------------------------------------------------------------------------
(* Properties of _detect_speaker *)

\* A line "TOKEN:rest": the index of its first colon, 0 when it has none.
FirstColon(line) ==
    LET colons == {k \in 1..Len(line) : line[k] = ":"}
    IN  IF colons = {} THEN 0
        ELSE CHOOSE k \in colons : \A m \in colons : k <= m

TokenOf(line) == SubSeq(line, 1, FirstColon(line) - 1)
RestOf(line) == SubSeq(line, FirstColon(line) + 1, Len(line))

\* A character a token may consist of: an uppercase letter, a space, an
\* apostrophe, a hyphen or a period.
IsTokenChar(c) == IsUpperLetter(c) \/ c \in {" ", "'", "-", "."}

\* "TOKEN: dialogue" with a token of length >= minlen that is no scene keyword.
IsTokenDialogue(line, minlen) ==
    /\ FirstColon(line) > 0
    /\ Len(TokenOf(line)) >= minlen
    /\ \A k \in 1..Len(TokenOf(line)) : IsTokenChar(TokenOf(line)[k])
    /\ strip(RestOf(line)) # <<>>
    /\ \A keyword \in scene_keywords : lower(strip(TokenOf(line))) # lower(keyword)

DetectedAsToken(line, match) ==
    match = SpeakerMatch(strip(TokenOf(line)), strip(RestOf(line)))

\* C7 as stated: pattern 1 accepts every "TOKEN: dialogue" line whose token
\* has length >= 1, a one-letter token included.
C7_P1AcceptsAnyToken ==
    (dpc = "done" /\ IsTokenDialogue(d_line, 1))
        => DetectedAsToken(d_line, d_match)

\* C7: pattern 1 accepts every "TOKEN: dialogue" line whose token begins with
\* an uppercase letter and has length >= 2; a token of one letter is not
\* accepted.
C7_P1AcceptsTokenOfTwo ==
    /\ (dpc = "done" /\ IsTokenDialogue(d_line, 2) /\ IsUpperLetter(d_line[1]))
          => DetectedAsToken(d_line, d_match)
    /\ (dpc = "done" /\ IsTokenDialogue(d_line, 1) /\ Len(TokenOf(d_line)) = 1)
          => ~d_match.matched

C7_Witness ==
    /\ dpc = "done"
    /\ IsTokenDialogue(d_line, 2)
    /\ Len(TokenOf(d_line)) = 2
    /\ IsUpperLetter(d_line[1])
    /\ d_match.matched
    /\ Len(d_match.speaker) = 2

-----------------------------------------------------------------------------
(* Properties of _get_voice_for_speaker *)

\* The entries of the voice map whose key equals the speaker ignoring case.
EntriesFor(speaker, mappings) ==
    {k \in 1..Len(mappings) : lower(mappings[k][1]) = lower(speaker)}

\* C5: whenever the voice map has a key equal to the speaker name ignoring
\* case, the voice returned is that of such a key and is read from the voice
\* map, whatever the name sets and the narrator test would give.
C5_VoiceMapFirst ==
    (vpc = "done" /\ EntriesFor(v_speaker, v_map) # {})
        => /\ v_result.source = "voice_mappings"
           /\ \E k \in EntriesFor(v_speaker, v_map) : v_result.voice = v_map[k][2]

C5_Witness ==
    /\ vpc = "done"
    /\ v_speaker = <<"J","o","h","n">>
    /\ v_map = << <<<<"J","O","H","N">>, "x">> >>
    /\ v_result.voice = "x"
    /\ AutoDetectVoice(v_speaker).voice = "am_adam"

\* The fallback the claim names, for a name that contains "narr" anywhere
\* when narr_anywhere, in its first word only otherwise.
FallbackOf(speaker, narr_anywhere) ==
    IF first_word(lower(speaker)) \in male_names
    THEN Voice("am_adam", "available_voices.male")
    ELSE IF first_word(lower(speaker)) \in female_names
    THEN Voice("af_bella", "available_voices.female")
    ELSE IF \/ contains(IF narr_anywhere THEN lower(speaker)
                        ELSE first_word(lower(speaker)), <<"n","a","r","r">>)
            \/ speaker = <<"N","A","R","R","A","T","O","R">>
    THEN Voice(default_voices.NARRATOR, "default_voices.NARRATOR")
    ELSE Voice(default_voices.DEFAULT, "default_voices.DEFAULT")

\* C6 as stated: with no entry for the speaker, male name, else female name,
\* else a name that contains "narr" anywhere gives the narrator voice, else
\* the default voice.
C6_FallbackNarrAnywhere ==
    (vpc = "done" /\ EntriesFor(v_speaker, v_map) = {})
        => v_result = FallbackOf(v_speaker, TRUE)

\* C6: with no entry for the speaker, male name, else female name, else a name
\* whose first word contains "narr" gives the narrator voice, else the default
\* voice.
C6_FallbackNarrFirstWord ==
    (vpc = "done" /\ EntriesFor(v_speaker, v_map) = {})
        => v_result = FallbackOf(v_speaker, FALSE)

C6_Witness ==
    /\ vpc = "done"
    /\ EntriesFor(v_speaker, v_map) = {}
    /\ v_speaker = <<"T","H","E"," ","N","A","R","R","A","T","O","R">>
    /\ v_result = Voice("af_heart", "default_voices.DEFAULT")

-----------------------------------------------------------------------------
(* Properties of concatenate_with_crossfade *)

\* C2 as stated: no sample of the result depends on three or more input
\* waveforms, whatever the lengths of the waveforms.
C2_NoThreeWayBlending ==
    \A j \in 1..Len(result) : Cardinality(WavesOf(result[j])) <= 2

\* Every waveform but the first and the last has at least 2n samples.
MiddleWavesLong ==
    \A w \in 2..(Len(audio_segments) - 1) :
       Len(audio_segments[w]) >= 2 * crossfade_samples

\* C2: when every middle waveform has at least 2n samples, each sample of the
\* result is a copy of one input sample or a mix of two input waveforms.
C2_PairwiseWhenMiddleLong ==
    MiddleWavesLong =>
       \A j \in 1..Len(result) :
          \/ \E w \in 1..Len(audio_segments) :
                \E k \in 1..Len(audio_segments[w]) : result[j] = InputSample(w, k)
          \/ Cardinality(WavesOf(result[j])) = 2

C2_Witness ==
    /\ apc = "returned"
    /\ crossfade_samples = 3
    /\ Len(audio_segments) = 3
    /\ Len(audio_segments[2]) >= 6
    /\ \E j \in 1..Len(result) : WavesOf(result[j]) = {1, 2}
    /\ \E j \in 1..Len(result) : WavesOf(result[j]) = {2, 3}

RECURSIVE SumLens(_)
SumLens(waves) ==
    IF waves = <<>> THEN 0 ELSE Len(Head(waves)) + SumLens(Tail(waves))

\* C8: a fold step with n > 0 and both sides of at least n samples gives
\* len(result) + len(current) - n samples; any other step appends current
\* whole; so k waveforms of at least n > 0 samples each give
\* sum(lengths) - (k-1)*n samples.
C8_FoldLengths ==
    /\ [][InFold =>
            LET current == audio_segments[seg_no]
                n == crossfade_samples
            IN  IF n > 0 /\ Len(result) >= n /\ Len(current) >= n
                THEN Len(result') = Len(result) + Len(current) - n
                ELSE result' = result \o current]_vars
    /\ []LET n == CrossfadeSamples(sample_rate, crossfade_duration_ms)
             k == Len(audio_segments)
         IN  ( /\ apc = "returned"
               /\ n > 0
               /\ \A w \in 1..k : Len(audio_segments[w]) >= n )
             => Len(result) = SumLens(audio_segments) - (k - 1) * n

C8_Witness ==
    /\ apc = "returned"
    /\ Len(audio_segments) = 3
    /\ crossfade_samples >= 2
    /\ \A w \in 1..3 : Len(audio_segments[w]) >= crossfade_samples
    /\ Len(result) = SumLens(audio_segments) - 2 * crossfade_samples

\* round(x / 1000) of Python: to the nearest integer, a tie to the even one.
Round1000(x) ==
    LET q == x \div 1000
        r == x % 1000
    IN  IF 2 * r < 1000 THEN q
        ELSE IF 2 * r > 1000 THEN q + 1
        ELSE IF q % 2 = 0 THEN q ELSE q + 1

WindowComputed == apc \in {"loop", "returned"} /\ Len(audio_segments) >= 2

\* C9 as stated: the window is round(sample_rate * crossfade_ms / 1000).
C9_WindowIsRounded ==
    WindowComputed =>
       crossfade_samples = Round1000(sample_rate * crossfade_duration_ms)

\* C9: the window is sample_rate * crossfade_ms / 1000 rounded down.
C9_WindowIsRoundedDown ==
    WindowComputed =>
       /\ crossfade_samples * 1000 <= sample_rate * crossfade_duration_ms
       /\ sample_rate * crossfade_duration_ms < (crossfade_samples + 1) * 1000

C9_Witness ==
    /\ apc = "loop"
    /\ sample_rate = 1999
    /\ crossfade_duration_ms = 1
    /\ crossfade_samples = 1

\* k * x
Times(x, k) == Scale(x, <<k, 1>>)

\* C10: a crossfade step with n >= 2 gives (result without its last n
\* samples) ++ mixed ++ (current without its first n samples), with
\* (n-1)*mixed[i] = (n-1-i)*tail[i] + i*head[i] for i in 0..n-1.
C10_CrossfadeWeights ==
    [][LET current == audio_segments[seg_no]
           n == crossfade_samples
           len == Len(result)
       IN  (InFold /\ n >= 2 /\ len >= n /\ Len(current) >= n) =>
              /\ Len(result') = len + Len(current) - n
              /\ \A j \in 1..(len - n) : result'[j] = result[j]
              /\ \A i \in 0..(n - 1) :
                    Times(result'[len - n + 1 + i], n - 1)
                       = Plus(Times(result[len - n + 1 + i], n - 1 - i),
                              Times(current[i + 1], i))
              /\ result'[len - n + 1] = result[len - n + 1]
              /\ result'[len] = current[n]
              /\ \A j \in (n + 1)..Len(current) : result'[len - n + j] = current[j]
      ]_vars

C10_Witness ==
    /\ step_kind = "crossfade"
    /\ crossfade_samples >= 3
    /\ seg_no = 3
    /\ \E j \in 1..Len(result) :
          /\ WavesOf(result[j]) = {1, 2}
          /\ result[j].den = 2

\* The call has ended, by a return or by an exception.
ConcatEnded == apc \in {"raised", "returned"}

\* C11: an empty list of waveforms ends in ValueError whatever the sample
\* rate and the crossfade duration are, and no waveform is returned.
C11_EmptyListRaises ==
    (audio_segments = <<>> /\ ConcatEnded) =>
       /\ apc = "raised"
       /\ result = <<>>
       /\ crossfade_samples = 0

C11_Witness ==
    /\ apc = "raised"
    /\ audio_segments = <<>>
    /\ sample_rate = 1999
    /\ crossfade_duration_ms = 3

\* C12: a list of exactly one waveform is returned as that waveform, the same
\* samples in the same number, whatever the sample rate and the crossfade
\* duration are, also when the waveform is shorter than the window.
C12_SingleReturnedUnchanged ==
    (Len(audio_segments) = 1 /\ ConcatEnded) =>
       /\ apc = "returned"
       /\ Len(result) = Len(audio_segments[1])
       /\ \A j \in 1..Len(result) : result[j] = InputSample(1, j)

C12_Witness ==
    /\ apc = "returned"
    /\ Len(audio_segments) = 1
    /\ Len(audio_segments[1]) = 2
    /\ CrossfadeSamples(sample_rate, crossfade_duration_ms) > 2
    /\ result = audio_segments[1]

\* C20: a fold step with a window of one sample and both sides non-empty
\* takes the crossfade branch: the result has len(result) + len(current) - 1
\* samples, its overlap sample is the last sample of result unchanged, the
\* rest of current follows, and the first sample of current is in no sample
\* of the result.
C20_WindowOfOne ==
    [][LET current == audio_segments[seg_no]
           len == Len(result)
       IN  (InFold /\ crossfade_samples = 1 /\ len >= 1 /\ Len(current) >= 1) =>
              /\ step_kind' = "crossfade"
              /\ Len(result') = len + Len(current) - 1
              /\ \A j \in 1..len : result'[j] = result[j]
              /\ \A j \in 2..Len(current) : result'[len + j - 1] = current[j]
              /\ \A j \in 1..Len(result') : Coef(result'[j], <<seg_no, 1>>) = 0
      ]_vars

C20_Witness ==
    /\ step_kind = "crossfade"
    /\ crossfade_samples = 1
    /\ seg_no = 3
    /\ Len(audio_segments[2]) >= 2
    /\ Len(result) = Len(audio_segments[1]) + Len(audio_segments[2]) - 1
    /\ \A j \in 1..Len(result) : Coef(result[j], <<2, 1>>) = 0

-----------------------------------------------------------------------------
(* Properties of detect_characters *)

\* What parse_script makes of a line of the script: the line is stripped
\* before it is handed to _detect_speaker.
CueOf(line) == _detect_speaker(strip(line))

\* counts.get(S, 0)
CountOf(counts, S) == IF S \in MapKeys(counts) THEN MapGet(counts, S) ELSE 0

\* C13: for every speaker S that is not a scene keyword, the count
\* detect_characters gives S is the number of lines of the script that
\* parse_script reads as a cue of S (S is absent when there is none), lines
\* with leading or trailing whitespace included.
C13_SameDetectionPass ==
    cpc = "done" =>
       LET ls == split_lines(c_text)
           cue_lines == {k \in 1..Len(ls) : CueOf(ls[k]).matched}
           names == MapKeys(characters) \cup {CueOf(ls[k]).speaker : k \in cue_lines}
       IN  \A S \in names :
              S \notin scene_keywords =>
                 CountOf(characters, S) =
                    Cardinality({k \in cue_lines : CueOf(ls[k]).speaker = S})

-----------------------------------------------------------------------------
(* Properties of suggest_voice_mappings *)

FirstToken(name) == first_word(lower(name))

\* The name gives no gender signal and is no narrator.
NoSignal(name) ==
    /\ ~contains(FirstToken(name), <<"n","a","r","r">>)
    /\ FirstToken(name) \notin male_names
    /\ FirstToken(name) \notin female_names

\* How many of the speakers before the i-th one satisfy Kind.
EarlierOf(Kind(_), i) ==
    Cardinality({j \in 1..(i - 1) : Kind(suggestions[j][1])})

\* C14: the speakers with no gender signal alternate in first-appearance
\* order: the 1st, 3rd, ... of them gets am_adam and the 2nd, 4th, ... gets
\* af_bella, whatever other speakers come between them.
C14_UnknownAlternate ==
    \A i \in 1..Len(suggestions) :
       NoSignal(suggestions[i][1]) =>
          suggestions[i][2] =
             IF EarlierOf(NoSignal, i) % 2 = 0 THEN "am_adam" ELSE "af_bella"

HasMaleName(name) == FirstToken(name) \in male_names
HasFemaleName(name) == FirstToken(name) \in female_names

\* C15: the k-th speaker (k from 0, first-appearance order) with a male first
\* token gets male[k mod 2], the k-th with a female first token gets
\* female[k mod 5]; each index counts the speakers of its own gender only.
C15_PoolsIndependent ==
    /\ \A i \in 1..Len(suggestions) :
          LET name == suggestions[i][1]
              voice == suggestions[i][2]
              male == available_voices.male
              female == available_voices.female
          IN  /\ HasMaleName(name) =>
                    voice = male[(EarlierOf(HasMaleName, i) % 2) + 1]
              /\ HasFemaleName(name) =>
                    voice = female[(EarlierOf(HasFemaleName, i) % 5) + 1]
    /\ male_voice_idx = EarlierOf(HasMaleName, Len(suggestions) + 1)
    /\ female_voice_idx = EarlierOf(HasFemaleName, Len(suggestions) + 1)

C15_Witness ==
    /\ spc = "done"
    /\ Len(suggestions) = 6
    /\ suggestions[1] = << <<"T","O","M">>, "am_adam" >>
    /\ suggestions[2] = << <<"M","A","R","Y">>, "af_bella" >>
    /\ suggestions[3] = << <<"B","O","B">>, "am_michael" >>
    /\ suggestions[4][1] = <<"Z","E","D">>
    /\ suggestions[5] = << <<"L","I","S","A">>, "af_sarah" >>
    /\ suggestions[6] = << <<"J","O","H","N"," ","S","M","I","T","H">>, "am_adam" >>

-----------------------------------------------------------------------------
(* Properties of KokoroTTSEngine.synthesize *)

\* C16: the voice identifier never makes synthesize reject a request: with
\* the engine ready and the text not blank the pipeline is called whatever
\* the identifier is, with the identifier itself when it is in the voice
\* table and with af_heart when it is not, so always with a known voice.
C16_VoiceNeverRejected ==
    /\ (e_ready /\ strip(e_text) # <<>> /\ epc # "start") =>
          /\ pipeline_voice \in EngineVoices
          /\ e_voice \in EngineVoices => pipeline_voice = e_voice
          /\ e_voice \notin EngineVoices => pipeline_voice = "af_heart"
    /\ epc = "ValueError" => strip(e_text) = <<>>
    /\ (epc = "RuntimeError" /\ pipeline_voice = "") => ~e_ready

C16_Witness ==
    /\ epc = "returned"
    /\ e_voice = "am_john"
    /\ pipeline_voice = "af_heart"

-----------------------------------------------------------------------------
(* Properties of the /synthesize/text handler *)

\* C18: a request whose text is empty or blank is answered with status 400
\* and the detail "Text cannot be empty", a request whose script gives no
\* segments with status 400 and the detail "No dialogue detected..."; in
\* both cases neither the engine nor the concatenation has been called.
C18_EmptinessAnswers400 ==
    hpc = "responded" =>
       /\ strip(request_text) = <<>> =>
             /\ response = [status_code |-> 400, detail |-> "Text cannot be empty"]
             /\ engine_calls = 0
             /\ concat_calls = 0
       /\ (strip(request_text) # <<>> /\ segments = <<>>) =>
             /\ response.status_code = 400
             /\ response.detail = h_exception.detail
             /\ h_exception.type = "HTTPException"
             /\ engine_calls = 0
             /\ concat_calls = 0

-----------------------------------------------------------------------------
(* Properties of parse_script on scripts that differ in blank lines *)

\* C17: a script and the same script without its blank lines give the same
\* segments, so scripts that differ only in empty or whitespace-only lines,
\* inserted or deleted anywhere, all give the same segments; the step that
\* reads a blank line leaves the speaker, the buffer and the segments as
\* they are, so the lines around it end up in one segment.
C17_BlankLinesIgnored ==
    /\ []((round = 2 /\ ppc = "done") =>
             Returned(segments) = Returned(first_segments))
    /\ [][(InLoop /\ strip(lines[line_no]) = <<>>) =>
             UNCHANGED <<current_speaker, current_text, segments>>]_vars

C17_Witness ==
    /\ round = 2
    /\ ppc = "done"
    /\ script_text = <<"J","O","H","N",":"," ","h","i","\n","h","e","l","l","o">>
    /\ Len(first_segments) = 1
    /\ first_segments[1].src = {1, 3}
    /\ first_segments[1].text = <<"h","i"," ","h","e","l","l","o">>
    /\ Returned(segments) = Returned(first_segments)

=============================================================================
